---- MODULE Spec2Model ----
(***************************************************************************)
(* AES-256 (rtl/python/aes256.py): GF(2^8) arithmetic, the state           *)
(* transforms, the key schedule, the block cipher core as a step machine,  *)
(* PKCS#7 padding and the ECB drivers.                                     *)
(*                                                                         *)
(* Bytes are naturals 0..255.  A Python bytes/list value is a sequence;    *)
(* Python index i is sequence index i+1.  A 4x4 state is a sequence of 4   *)
(* rows of 4 bytes, state[r][c] modelling Python state[r-1][c-1].          *)
(*                                                                         *)
(* Arguments are byte sequences: the str arguments that aes256_encrypt     *)
(* and aes256_decrypt first encode as UTF-8 are passed here already        *)
(* encoded.                                                                *)
(***************************************************************************)
EXTENDS Naturals, Integers, Sequences, FiniteSets, TLC

VARIABLES
  fn,         \* the API function being executed ("none" before the first call)
  data,       \* its first argument (plaintext / ciphertext / data / state)
  key,        \* its key argument (<<>> for the padding functions)
  orig,       \* the argument of the call whose result `data` is (else <<>>)
  origfn,     \* the function of that earlier call (else "none")
  pc,         \* control position inside the function
  state,      \* block core: the 4x4 state (<<>> before bytes_to_state)
  round_keys, \* block core: the 15 round keys (<<>> before key_expansion)
  round_num,  \* block core: index of the round key used next
  trace,      \* block core: the transforms applied so far, in order
  padded,     \* ECB encrypt: padded_plaintext
  idx,        \* ECB drivers: the loop variable i; gmul: iterations done
  buf,        \* ECB drivers: the accumulator; gmul: the running <<a, b, p>>
  out,        \* the returned value once pc = "returned"
  err         \* the exception type once pc = "raised", else "none"

vars == <<fn, data, key, orig, origfn, pc, state, round_keys, round_num, trace,
          padded, idx, buf, out, err>>

-----------------------------------------------------------------------------
(* Static tables, rtl/python/aes256.py lines 10-52.                         *)

SBOX ==
  <<
     99, 124, 119, 123, 242, 107, 111, 197,  48,   1, 103,  43, 254, 215, 171, 118,
    202, 130, 201, 125, 250,  89,  71, 240, 173, 212, 162, 175, 156, 164, 114, 192,
    183, 253, 147,  38,  54,  63, 247, 204,  52, 165, 229, 241, 113, 216,  49,  21,
      4, 199,  35, 195,  24, 150,   5, 154,   7,  18, 128, 226, 235,  39, 178, 117,
      9, 131,  44,  26,  27, 110,  90, 160,  82,  59, 214, 179,  41, 227,  47, 132,
     83, 209,   0, 237,  32, 252, 177,  91, 106, 203, 190,  57,  74,  76,  88, 207,
    208, 239, 170, 251,  67,  77,  51, 133,  69, 249,   2, 127,  80,  60, 159, 168,
     81, 163,  64, 143, 146, 157,  56, 245, 188, 182, 218,  33,  16, 255, 243, 210,
    205,  12,  19, 236,  95, 151,  68,  23, 196, 167, 126,  61, 100,  93,  25, 115,
     96, 129,  79, 220,  34,  42, 144, 136,  70, 238, 184,  20, 222,  94,  11, 219,
    224,  50,  58,  10,  73,   6,  36,  92, 194, 211, 172,  98, 145, 149, 228, 121,
    231, 200,  55, 109, 141, 213,  78, 169, 108,  86, 244, 234, 101, 122, 174,   8,
    186, 120,  37,  46,  28, 166, 180, 198, 232, 221, 116,  31,  75, 189, 139, 138,
    112,  62, 181, 102,  72,   3, 246,  14,  97,  53,  87, 185, 134, 193,  29, 158,
    225, 248, 152,  17, 105, 217, 142, 148, 155,  30, 135, 233, 206,  85,  40, 223,
    140, 161, 137,  13, 191, 230,  66, 104,  65, 153,  45,  15, 176,  84, 187,  22
  >>
INV_SBOX ==
  <<
     82,   9, 106, 213,  48,  54, 165,  56, 191,  64, 163, 158, 129, 243, 215, 251,
    124, 227,  57, 130, 155,  47, 255, 135,  52, 142,  67,  68, 196, 222, 233, 203,
     84, 123, 148,  50, 166, 194,  35,  61, 238,  76, 149,  11,  66, 250, 195,  78,
      8,  46, 161, 102,  40, 217,  36, 178, 118,  91, 162,  73, 109, 139, 209,  37,
    114, 248, 246, 100, 134, 104, 152,  22, 212, 164,  92, 204,  93, 101, 182, 146,
    108, 112,  72,  80, 253, 237, 185, 218,  94,  21,  70,  87, 167, 141, 157, 132,
    144, 216, 171,   0, 140, 188, 211,  10, 247, 228,  88,   5, 184, 179,  69,   6,
    208,  44,  30, 143, 202,  63,  15,   2, 193, 175, 189,   3,   1,  19, 138, 107,
     58, 145,  17,  65,  79, 103, 220, 234, 151, 242, 207, 206, 240, 180, 230, 115,
    150, 172, 116,  34, 231, 173,  53, 133, 226, 249,  55, 232,  28, 117, 223, 110,
     71, 241,  26, 113,  29,  41, 197, 137, 111, 183,  98,  14, 170,  24, 190,  27,
    252,  86,  62,  75, 198, 210, 121,  32, 154, 219, 192, 254, 120, 205,  90, 244,
     31, 221, 168,  51, 136,   7, 199,  49, 177,  18,  16,  89,  39, 128, 236,  95,
     96,  81, 127, 169,  25, 181,  74,  13,  45, 229, 122, 159, 147, 201, 156, 239,
    160, 224,  59,  77, 174,  42, 245, 176, 200, 235, 187,  60, 131,  83, 153,  97,
     23,  43,   4, 126, 186, 119, 214,  38, 225, 105,  20,  99,  85,  33,  12, 125
  >>
RCON ==
  << 1, 2, 4, 8, 16, 32, 64, 128, 27, 54, 108, 216, 171, 77 >>

-----------------------------------------------------------------------------
(* Integer bit operations of Python on non-negative integers.               *)

\* a ^ b, bit by bit, for non-negative integers of any width.
RECURSIVE xor_bits(_, _)
xor_bits(a, b) ==
  IF a = 0 THEN b
  ELSE IF b = 0 THEN a
  ELSE (((a % 2) + (b % 2)) % 2) + 2 * xor_bits(a \div 2, b \div 2)

\* a ^ b for two bytes, tabulated once.
XorTab == [a \in 0..255 |-> [b \in 0..255 |-> xor_bits(a, b)]]

\* a ^ b
xor(a, b) == IF a < 256 /\ b < 256 THEN XorTab[a][b] ELSE xor_bits(a, b)

GMUL_ITERATIONS == 8

\* if b & 1: p ^= a
gmul_p(a, b, p) == IF b % 2 = 1 THEN xor(p, a) ELSE p

\* gmul_a shifting a without the reduction by 0x1b.
gmul_a_no_reduce(a) == 2 * a

\* hi_bit_set = a & 0x80; a <<= 1; if hi_bit_set: a ^= 0x1b.  The shifted
\* value is not masked to 8 bits.
gmul_a(a) == IF (a \div 128) % 2 = 1 THEN xor(2 * a, 27) ELSE 2 * a

\* The loop of gmul with n iterations left, then return p & 0xFF.
RECURSIVE gmul_loop(_, _, _, _)
gmul_loop(a, b, p, n) ==
  IF n = 0 THEN p % 256
  ELSE gmul_loop(gmul_a(a), b \div 2, gmul_p(a, b, p), n - 1)

\* gmul(a, b): multiplication in GF(2^8).
gmul(a, b) == gmul_loop(a, b, 0, GMUL_ITERATIONS)

\* The multipliers MixColumns and InvMixColumns pass to gmul.
MixCoefficients == {2, 3, 9, 11, 13, 14}

\* gmul(a, c) for every byte a and every multiplier c the transforms use,
\* tabulated once.
GmulTab == [c \in MixCoefficients |-> [a \in 0..255 |-> gmul(a, c)]]

-----------------------------------------------------------------------------
(* State transforms.                                                        *)

Idx4 == 1..4

sub_bytes(s) == [r \in Idx4 |-> [c \in Idx4 |-> SBOX[s[r][c] + 1]]]

inv_sub_bytes(s) == [r \in Idx4 |-> [c \in Idx4 |-> INV_SBOX[s[r][c] + 1]]]

\* row[n:] + row[:n]
rot_left(row, n) == SubSeq(row, n + 1, Len(row)) \o SubSeq(row, 1, n)

\* row[-n:] + row[:-n]
rot_right(row, n) ==
  SubSeq(row, Len(row) - n + 1, Len(row)) \o SubSeq(row, 1, Len(row) - n)

shift_rows(s) ==
  <<s[1], rot_left(s[2], 1), rot_left(s[3], 2), rot_left(s[4], 3)>>

\* inv_shift_rows rotating the rows left, as shift_rows does.
inv_shift_rows_left(s) ==
  <<s[1], rot_left(s[2], 1), rot_left(s[3], 2), rot_left(s[4], 3)>>

inv_shift_rows(s) ==
  <<s[1], rot_right(s[2], 1), rot_right(s[3], 2), rot_right(s[4], 3)>>

\* The four new bytes of one column, from the column read before any write.
mix_column(col) ==
  << xor(xor(xor(GmulTab[2][col[1]], GmulTab[3][col[2]]), col[3]), col[4]),
     xor(xor(xor(col[1], GmulTab[2][col[2]]), GmulTab[3][col[3]]), col[4]),
     xor(xor(xor(col[1], col[2]), GmulTab[2][col[3]]), GmulTab[3][col[4]]),
     xor(xor(xor(GmulTab[3][col[1]], col[2]), col[3]), GmulTab[2][col[4]]) >>

mix_columns(s) ==
  LET new(c) == mix_column(<<s[1][c], s[2][c], s[3][c], s[4][c]>>)
  IN [r \in Idx4 |-> [c \in Idx4 |-> new(c)[r]]]

\* inv_mix_column with the multipliers 9 and 13 exchanged.
inv_mix_column_swapped(col) ==
  << xor(xor(xor(GmulTab[14][col[1]], GmulTab[11][col[2]]),
             GmulTab[9][col[3]]), GmulTab[13][col[4]]),
     xor(xor(xor(GmulTab[13][col[1]], GmulTab[14][col[2]]),
             GmulTab[11][col[3]]), GmulTab[9][col[4]]),
     xor(xor(xor(GmulTab[9][col[1]], GmulTab[13][col[2]]),
             GmulTab[14][col[3]]), GmulTab[11][col[4]]),
     xor(xor(xor(GmulTab[11][col[1]], GmulTab[9][col[2]]),
             GmulTab[13][col[3]]), GmulTab[14][col[4]]) >>

inv_mix_column(col) ==
  << xor(xor(xor(GmulTab[14][col[1]], GmulTab[11][col[2]]),
             GmulTab[13][col[3]]), GmulTab[9][col[4]]),
     xor(xor(xor(GmulTab[9][col[1]], GmulTab[14][col[2]]),
             GmulTab[11][col[3]]), GmulTab[13][col[4]]),
     xor(xor(xor(GmulTab[13][col[1]], GmulTab[9][col[2]]),
             GmulTab[14][col[3]]), GmulTab[11][col[4]]),
     xor(xor(xor(GmulTab[11][col[1]], GmulTab[13][col[2]]),
             GmulTab[9][col[3]]), GmulTab[14][col[4]]) >>

inv_mix_columns(s) ==
  LET new(c) == inv_mix_column(<<s[1][c], s[2][c], s[3][c], s[4][c]>>)
  IN [r \in Idx4 |-> [c \in Idx4 |-> new(c)[r]]]

add_round_key(s, round_key) ==
  [r \in Idx4 |-> [c \in Idx4 |-> xor(s[r][c], round_key[r][c])]]

-----------------------------------------------------------------------------
(* Key schedule.                                                            *)

\* [SBOX[b] for b in temp]
sub_word(w) == <<SBOX[w[1] + 1], SBOX[w[2] + 1], SBOX[w[3] + 1], SBOX[w[4] + 1]>>

\* rcon_word reading RCON[i//8], one entry too far.
rcon_word_next(t, i) == <<xor(t[1], RCON[(i \div 8) + 1]), t[2], t[3], t[4]>>

\* temp[0] ^= RCON[i//8 - 1]
rcon_word(t, i) == <<xor(t[1], RCON[(i \div 8 - 1) + 1]), t[2], t[3], t[4]>>

\* schedule_temp without the extra SubWord of AES-256 at i % 8 = 4.
schedule_temp_no_extra_sub(prev, i) ==
  IF i % 8 = 0 THEN rcon_word(sub_word(rot_left(prev, 1)), i) ELSE prev

\* The transform of word i-1 that is XORed with word i-8 (Python index i).
schedule_temp(prev, i) ==
  IF i % 8 = 0 THEN rcon_word(sub_word(rot_left(prev, 1)), i)
  ELSE IF i % 8 = 4 THEN sub_word(prev)
  ELSE prev

\* [key_words[i-8][j] ^ temp[j] for j in range(4)]
xor_words(a, b) == <<xor(a[1], b[1]), xor(a[2], b[2]), xor(a[3], b[3]), xor(a[4], b[4])>>

\* key_words after the loop has appended the words up to index 59; `w`
\* holds the words 0..i-1.
RECURSIVE expand_words(_, _)
expand_words(w, i) ==
  IF i >= 60 THEN w
  ELSE expand_words(
         Append(w, xor_words(w[(i - 8) + 1], schedule_temp(w[(i - 1) + 1], i))),
         i + 1)

\* The 8 words of the key.
key_to_words(k) ==
  [i \in 1..8 |-> <<k[4*(i-1) + 1], k[4*(i-1) + 2], k[4*(i-1) + 3], k[4*(i-1) + 4]>>]

\* Round key n (from 0) out of the 60 words: word j is its column j.
round_key_of(key_words, n) ==
  [r \in Idx4 |-> [c \in Idx4 |-> key_words[n * 4 + c][r]]]

\* The 15 round keys, round_keys[n+1] modelling Python round_keys[n].
words_to_round_keys(key_words) == [n \in 1..15 |-> round_key_of(key_words, n - 1)]

key_expansion(k) == words_to_round_keys(expand_words(key_to_words(k), 8))

\* state[j][i] = data[i*4 + j]
bytes_to_state(d) == [r \in Idx4 |-> [c \in Idx4 |-> d[(c - 1) * 4 + r]]]

\* data.append(state[j][i]) for i, then j
state_to_bytes(s) == [n \in 1..16 |-> s[((n - 1) % 4) + 1][((n - 1) \div 4) + 1]]

-----------------------------------------------------------------------------
(* Block cipher core.  One call is a frame                                  *)
(*   [fn, data, key, pc, state, round_keys, round_num, trace, out, err]     *)
(* and a step applies the next statement of the function to it.  The trace  *)
(* lists <<transform, round_num>> for every transform applied.              *)

BLOCK_LEN == 16
KEY_LEN == 32
LAST_ROUND == 14

\* size_error accepting a key that is too long.
size_error_long_key(d, k) == Len(d) # BLOCK_LEN \/ Len(k) < KEY_LEN

\* The two length checks that open aes256_encrypt_block and
\* aes256_decrypt_block; both raise ValueError.
size_error(d, k) == Len(d) # BLOCK_LEN \/ Len(k) # KEY_LEN

new_frame(f, d, k) ==
  [fn |-> f, data |-> d, key |-> k, pc |-> "check", state |-> <<>>,
   round_keys |-> <<>>, round_num |-> 0, trace |-> <<>>, out |-> <<>>,
   err |-> "none"]

\* if len(...) != 16 / if len(key) != 32: raise ValueError
check_step(f) ==
  IF size_error(f.data, f.key)
    THEN [f EXCEPT !.pc = "raised", !.err = "ValueError"]
    ELSE [f EXCEPT !.pc = "expand"]

\* round_keys = key_expansion(key); state = bytes_to_state(...)
expand_step(f, first_round) ==
  [f EXCEPT !.round_keys = key_expansion(f.key),
            !.state = bytes_to_state(f.data),
            !.round_num = first_round,
            !.pc = "add_round_key"]

logged(f, op) == Append(f.trace, <<op, f.round_num>>)

\* enc_after_shift_rows with MixColumns in the final round too.
enc_after_shift_rows_always_mix(n) == "mix_columns"

\* What follows ShiftRows in aes256_encrypt_block: MixColumns inside the
\* loop over range(1, 14), AddRoundKey in the final round.
enc_after_shift_rows(n) == IF n < LAST_ROUND THEN "mix_columns" ELSE "add_round_key"

\* One statement of aes256_encrypt_block.
enc_step(f) ==
  CASE f.pc = "check" -> check_step(f)
    [] f.pc = "expand" -> expand_step(f, 0)
    [] f.pc = "add_round_key" ->
         LET s == add_round_key(f.state, f.round_keys[f.round_num + 1])
             g == [f EXCEPT !.state = s, !.trace = logged(f, "AddRoundKey")]
         IN IF f.round_num = LAST_ROUND
              THEN [g EXCEPT !.pc = "returned", !.out = state_to_bytes(s)]
              ELSE [g EXCEPT !.pc = "sub_bytes", !.round_num = f.round_num + 1]
    [] f.pc = "sub_bytes" ->
         [f EXCEPT !.state = sub_bytes(f.state), !.trace = logged(f, "SubBytes"),
                   !.pc = "shift_rows"]
    [] f.pc = "shift_rows" ->
         [f EXCEPT !.state = shift_rows(f.state), !.trace = logged(f, "ShiftRows"),
                   !.pc = enc_after_shift_rows(f.round_num)]
    [] f.pc = "mix_columns" ->
         [f EXCEPT !.state = mix_columns(f.state), !.trace = logged(f, "MixColumns"),
                   !.pc = "add_round_key"]

\* What follows AddRoundKey(round_keys[n]) in aes256_decrypt_block.
dec_after_add_round_key(n) ==
  IF n = LAST_ROUND THEN "inv_shift_rows"
  ELSE IF n = 0 THEN "returned"
  ELSE "inv_mix_columns"

\* One statement of aes256_decrypt_block.
dec_step(f) ==
  CASE f.pc = "check" -> check_step(f)
    [] f.pc = "expand" -> expand_step(f, LAST_ROUND)
    [] f.pc = "add_round_key" ->
         LET s == add_round_key(f.state, f.round_keys[f.round_num + 1])
             g == [f EXCEPT !.state = s, !.trace = logged(f, "AddRoundKey")]
             nxt == dec_after_add_round_key(f.round_num)
         IN IF nxt = "returned"
              THEN [g EXCEPT !.pc = "returned", !.out = state_to_bytes(s)]
            ELSE IF nxt = "inv_shift_rows"
              THEN [g EXCEPT !.pc = nxt, !.round_num = f.round_num - 1]
            ELSE [g EXCEPT !.pc = nxt]
    [] f.pc = "inv_shift_rows" ->
         [f EXCEPT !.state = inv_shift_rows(f.state),
                   !.trace = logged(f, "InvShiftRows"), !.pc = "inv_sub_bytes"]
    [] f.pc = "inv_sub_bytes" ->
         [f EXCEPT !.state = inv_sub_bytes(f.state),
                   !.trace = logged(f, "InvSubBytes"), !.pc = "add_round_key"]
    [] f.pc = "inv_mix_columns" ->
         [f EXCEPT !.state = inv_mix_columns(f.state),
                   !.trace = logged(f, "InvMixColumns"),
                   !.round_num = f.round_num - 1, !.pc = "inv_shift_rows"]

block_step(f) == IF f.fn = "encrypt_block" THEN enc_step(f) ELSE dec_step(f)

Finished(p) == p \in {"returned", "raised"}

\* A whole call of the block core: its frame when it returns or raises.
RECURSIVE run_block(_)
run_block(f) == IF Finished(f.pc) THEN f ELSE run_block(block_step(f))

aes256_encrypt_block(plaintext, k) == run_block(new_frame("encrypt_block", plaintext, k))

aes256_decrypt_block(ciphertext, k) == run_block(new_frame("decrypt_block", ciphertext, k))

-----------------------------------------------------------------------------
(* Padding and Python slicing.                                              *)

Min(a, b) == IF a < b THEN a ELSE b
Max(a, b) == IF a > b THEN a ELSE b

\* s[a:b] for 0 <= a <= b: the slice is cut at the end of s.
py_slice(s, a, b) == SubSeq(s, a + 1, Min(b, Len(s)))

\* s[:stop] for any integer stop: a negative stop counts from the end and
\* is cut at 0; a stop of 0 (also written -0) gives the empty sequence.
py_slice_to(s, stop) ==
  IF stop < 0 THEN SubSeq(s, 1, Max(Len(s) + stop, 0))
  ELSE SubSeq(s, 1, Min(stop, Len(s)))

\* padding_len_of adding nothing to block-aligned data.
padding_len_of_no_full_block(d) == (BLOCK_LEN - (Len(d) % BLOCK_LEN)) % BLOCK_LEN

\* padding_len = block_size - (len(data) % block_size)
padding_len_of(d) == BLOCK_LEN - (Len(d) % BLOCK_LEN)

\* pkcs7_pad appending zero bytes, as bytes(padding_len) would.
pkcs7_pad_zeros(d) == d \o [j \in 1..padding_len_of(d) |-> 0]

pkcs7_pad(d) == d \o [j \in 1..padding_len_of(d) |-> padding_len_of(d)]

\* data[-1] raises IndexError on empty data; otherwise data[:-padding_len].
pkcs7_unpad(d) ==
  IF Len(d) = 0
    THEN [err |-> "IndexError", out |-> <<>>]
    ELSE [err |-> "none", out |-> py_slice_to(d, 0 - d[Len(d)])]

-----------------------------------------------------------------------------
(* Arguments the callers pass.                                              *)

NumKeys == 2
NumSeeds == 2
MaxMsgLen == 32
MaxPadByte == 34

\* Key 1 is the FIPS-197 C.3 key 00 01 .. 1f of Test 1.
KeyOf(n) == [i \in 1..KEY_LEN |-> ((i - 1) * (2 * n - 1) + 89 * (n - 1)) % 256]

Keys == {KeyOf(n) : n \in 1..NumKeys}

\* Keys of 31 and 33 bytes.
BadKeys == {SubSeq(KeyOf(1), 1, KEY_LEN - 1), Append(KeyOf(1), KEY_LEN)}

\* The last byte of a block decides what pkcs7_unpad strips from it.
LastBytes == {0, 3, 16, 17, 255}

\* Block (1, 255) is the FIPS-197 C.3 plaintext 00 11 .. ff of Test 1.
BlockOf(s, last) ==
  [i \in 1..BLOCK_LEN |->
     IF i = BLOCK_LEN THEN last ELSE (17 * (i - 1) + 101 * (s - 1)) % 256]

Blocks == {BlockOf(s, l) : s \in 1..NumSeeds, l \in LastBytes}

\* Blocks of 15 and 17 bytes.
BadBlocks == {SubSeq(BlockOf(1, 255), 1, BLOCK_LEN - 1), Append(BlockOf(1, 255), 1)}

\* A message of n bytes; with seed 1 its 16-byte chunks are all alike.
MsgOf(n, s) == [i \in 1..n |-> (((i - 1) % (BLOCK_LEN * s)) * 11 + 7 * s) % 256]

Messages == {MsgOf(n, s) : n \in 0..MaxMsgLen, s \in 1..NumSeeds}

\* Ciphertexts a caller of aes256_decrypt may pass that no encryption made.
RawCiphertexts == {MsgOf(n, 2) : n \in 0..MaxMsgLen}

\* Data of n >= 1 bytes ending in byte b, and the empty data.
UnpadArgs ==
  {<<>>} \cup {[i \in 1..n |-> IF i = n THEN b ELSE (3 * i) % 256] :
                 n \in 1..MaxMsgLen, b \in (0..MaxPadByte) \cup {255}}

-----------------------------------------------------------------------------
(* The state machine: a caller makes one call at a time; no component       *)
(* keeps state across calls.                                                *)

BlockFns == {"encrypt_block", "decrypt_block"}

Init ==
  /\ fn = "none" /\ data = <<>> /\ key = <<>> /\ orig = <<>> /\ origfn = "none"
  /\ pc = "idle"
  /\ state = <<>> /\ round_keys = <<>> /\ round_num = 0 /\ trace = <<>>
  /\ padded = <<>> /\ idx = 0 /\ buf = <<>>
  /\ out = <<>> /\ err = "none"

\* Function f is entered with arguments d, k; o, of are the argument and the
\* function of the call that produced d (<<>>, "none" for fresh arguments).
Enter(f, d, k, o, of) ==
  /\ fn' = f /\ data' = d /\ key' = k /\ orig' = o /\ origfn' = of
  /\ pc' = IF f \in BlockFns THEN "check"
           ELSE IF f \in {"encrypt", "decrypt"} THEN "check_key" ELSE "call"
  /\ state' = <<>> /\ round_keys' = <<>> /\ round_num' = 0 /\ trace' = <<>>
  /\ padded' = <<>> /\ idx' = 0 /\ buf' = <<>>
  /\ out' = <<>> /\ err' = "none"

CallEncryptBlock ==
  /\ pc = "idle"
  /\ \E p \in Blocks \cup BadBlocks, k \in Keys \cup BadKeys :
       Enter("encrypt_block", p, k, <<>>, "none")

CallDecryptBlock ==
  /\ pc = "idle"
  /\ \E c \in Blocks \cup BadBlocks, k \in Keys \cup BadKeys :
       Enter("decrypt_block", c, k, <<>>, "none")

\* decrypted = aes256_decrypt_block(ciphertext, key) on the block just made.
CallDecryptBlockOnResult ==
  /\ pc = "returned" /\ fn = "encrypt_block" /\ origfn = "none"
  /\ Enter("decrypt_block", out, key, data, fn)

CallEncrypt ==
  /\ pc = "idle"
  /\ \/ \E m \in Messages, k \in Keys : Enter("encrypt", m, k, <<>>, "none")
     \/ \E m \in {MsgOf(0, 1), MsgOf(5, 1)}, k \in BadKeys :
          Enter("encrypt", m, k, <<>>, "none")

CallDecrypt ==
  /\ pc = "idle"
  /\ \/ \E c \in RawCiphertexts, k \in Keys : Enter("decrypt", c, k, <<>>, "none")
     \/ \E c \in {MsgOf(16, 2), MsgOf(17, 2)}, k \in BadKeys :
          Enter("decrypt", c, k, <<>>, "none")

\* decrypted = aes256_decrypt(encrypted, key) on the ciphertext just made,
\* by aes256_encrypt or (one raw block) by aes256_encrypt_block.
CallDecryptOnResult ==
  /\ pc = "returned" /\ fn \in {"encrypt", "encrypt_block"} /\ origfn = "none"
  /\ Enter("decrypt", out, key, data, fn)

CallPad ==
  /\ pc = "idle"
  /\ \E d \in Messages : Enter("pkcs7_pad", d, <<>>, <<>>, "none")

CallUnpad ==
  /\ pc = "idle"
  /\ \E d \in UnpadArgs : Enter("pkcs7_unpad", d, <<>>, <<>>, "none")

\* The call is over and its result consumed: nothing of it is kept.
Finish ==
  /\ Finished(pc)
  /\ fn' = "none" /\ data' = <<>> /\ key' = <<>> /\ orig' = <<>> /\ origfn' = "none"
  /\ pc' = "idle"
  /\ state' = <<>> /\ round_keys' = <<>> /\ round_num' = 0 /\ trace' = <<>>
  /\ padded' = <<>> /\ idx' = 0 /\ buf' = <<>>
  /\ out' = <<>> /\ err' = "none"

\* The running block call as a frame.
Frame ==
  [fn |-> fn, data |-> data, key |-> key, pc |-> pc, state |-> state,
   round_keys |-> round_keys, round_num |-> round_num, trace |-> trace,
   out |-> out, err |-> err]

SetFrame(f) ==
  /\ pc' = f.pc /\ state' = f.state /\ round_keys' = f.round_keys
  /\ round_num' = f.round_num /\ trace' = f.trace /\ out' = f.out /\ err' = f.err
  /\ UNCHANGED <<fn, data, key, orig, origfn, padded, idx, buf>>

\* The length checks of a block call.
BlockCheck == fn \in BlockFns /\ pc = "check" /\ SetFrame(block_step(Frame))

\* Key expansion and bytes_to_state of a block call.
BlockExpand == fn \in BlockFns /\ pc = "expand" /\ SetFrame(block_step(Frame))

\* The next transform of a block call.
BlockTransform ==
  /\ fn \in BlockFns
  /\ pc \notin {"idle", "check", "expand", "returned", "raised"}
  /\ SetFrame(block_step(Frame))

Raise(e) ==
  /\ pc' = "raised" /\ err' = e
  /\ UNCHANGED <<fn, data, key, orig, origfn, state, round_keys, round_num,
                 trace, padded, idx, buf, out>>

Return(v) ==
  /\ pc' = "returned" /\ out' = v
  /\ UNCHANGED <<fn, data, key, orig, origfn, state, round_keys, round_num,
                 trace, padded, idx, buf, err>>

\* if len(key) != 32: raise ValueError, in aes256_encrypt and aes256_decrypt.
key_error(k) == Len(k) # KEY_LEN

EncryptCheckKey ==
  /\ fn = "encrypt" /\ pc = "check_key"
  /\ IF key_error(key) THEN Raise("ValueError")
     ELSE /\ pc' = "pad"
          /\ UNCHANGED <<fn, data, key, orig, origfn, state, round_keys,
                         round_num, trace, padded, idx, buf, out, err>>

\* padded_plaintext = pkcs7_pad(plaintext); ciphertext = b''
EncryptPad ==
  /\ fn = "encrypt" /\ pc = "pad"
  /\ padded' = pkcs7_pad(data) /\ buf' = <<>> /\ idx' = 0 /\ pc' = "loop"
  /\ UNCHANGED <<fn, data, key, orig, origfn, state, round_keys, round_num,
                 trace, out, err>>

\* encrypt_chunk ignoring the loop variable.
encrypt_chunk_first(p, i) == py_slice(p, 0, BLOCK_LEN)

\* block = padded_plaintext[i:i+16]
encrypt_chunk(p, i) == py_slice(p, i, i + BLOCK_LEN)

\* One iteration of the loop of aes256_encrypt; an exception of the block
\* call propagates.
EncryptLoop ==
  /\ fn = "encrypt" /\ pc = "loop" /\ idx < Len(padded)
  /\ LET r == aes256_encrypt_block(encrypt_chunk(padded, idx), key)
     IN IF r.err # "none" THEN Raise(r.err)
        ELSE /\ buf' = buf \o r.out /\ idx' = idx + BLOCK_LEN
             /\ UNCHANGED <<fn, data, key, orig, origfn, pc, state, round_keys,
                            round_num, trace, padded, out, err>>

\* return ciphertext
EncryptReturn ==
  /\ fn = "encrypt" /\ pc = "loop" /\ idx >= Len(padded)
  /\ Return(buf)

\* The key check of aes256_decrypt, then plaintext = b''.
DecryptCheckKey ==
  /\ fn = "decrypt" /\ pc = "check_key"
  /\ IF key_error(key) THEN Raise("ValueError")
     ELSE /\ pc' = "loop" /\ buf' = <<>> /\ idx' = 0
          /\ UNCHANGED <<fn, data, key, orig, origfn, state, round_keys,
                         round_num, trace, padded, out, err>>

\* block = ciphertext[i:i+16]
decrypt_chunk(c, i) == py_slice(c, i, i + BLOCK_LEN)

\* One iteration of the loop of aes256_decrypt; an exception of the block
\* call propagates.
DecryptLoop ==
  /\ fn = "decrypt" /\ pc = "loop" /\ idx < Len(data)
  /\ LET r == aes256_decrypt_block(decrypt_chunk(data, idx), key)
     IN IF r.err # "none" THEN Raise(r.err)
        ELSE /\ buf' = buf \o r.out /\ idx' = idx + BLOCK_LEN
             /\ UNCHANGED <<fn, data, key, orig, origfn, pc, state, round_keys,
                            round_num, trace, padded, out, err>>

\* return pkcs7_unpad(plaintext)
DecryptUnpad ==
  /\ fn = "decrypt" /\ pc = "loop" /\ idx >= Len(data)
  /\ LET r == pkcs7_unpad(buf)
     IN IF r.err # "none" THEN Raise(r.err) ELSE Return(r.out)

PadCall == fn = "pkcs7_pad" /\ pc = "call" /\ Return(pkcs7_pad(data))

UnpadCall ==
  /\ fn = "pkcs7_unpad" /\ pc = "call"
  /\ LET r == pkcs7_unpad(data)
     IN IF r.err # "none" THEN Raise(r.err) ELSE Return(r.out)

Next ==
  \/ CallEncryptBlock
  \/ CallDecryptBlock
  \/ CallDecryptBlockOnResult
  \/ CallEncrypt
  \/ CallDecrypt
  \/ CallDecryptOnResult
  \/ CallPad
  \/ CallUnpad
  \/ Finish
  \/ BlockCheck
  \/ BlockExpand
  \/ BlockTransform
  \/ EncryptCheckKey
  \/ EncryptPad
  \/ EncryptLoop
  \/ EncryptReturn
  \/ DecryptCheckKey
  \/ DecryptLoop
  \/ DecryptUnpad
  \/ PadCall
  \/ UnpadCall

Spec == Init /\ [][Next]_vars

-----------------------------------------------------------------------------
(* Properties.                                                              *)

\* FIPS-197 Appendix C.3.
FipsPlaintext ==
  <<0, 17, 34, 51, 68, 85, 102, 119, 136, 153, 170, 187, 204, 221, 238, 255>>
FipsKey ==
  <<0, 1, 2, 3, 4, 5, 6, 7, 8, 9, 10, 11, 12, 13, 14, 15,
    16, 17, 18, 19, 20, 21, 22, 23, 24, 25, 26, 27, 28, 29, 30, 31>>
FipsCiphertext ==
  <<142, 162, 183, 202, 81, 103, 69, 191, 234, 252, 73, 144, 75, 73, 96, 137>>

\* C1: block round trip.  When aes256_decrypt_block has finished on the
\* block that aes256_encrypt_block returned for plaintext `orig` under the
\* same key, it has returned, and what it returned is exactly `orig`.
BlockRoundTrip ==
  (fn = "decrypt_block" /\ origfn = "encrypt_block" /\ Finished(pc)) =>
    (pc = "returned" /\ err = "none" /\ out = orig)

BlockRoundTripWitness ==
  /\ fn = "decrypt_block" /\ origfn = "encrypt_block" /\ pc = "returned"
  /\ key = KeyOf(2) /\ orig = BlockOf(2, 3) /\ out = orig /\ data # orig

\* C2: known-answer vector.  aes256_encrypt_block on the FIPS-197 C.3
\* plaintext and key returns the FIPS-197 C.3 ciphertext.
KnownAnswerVector ==
  (fn = "encrypt_block" /\ data = FipsPlaintext /\ key = FipsKey /\ Finished(pc)) =>
    (pc = "returned" /\ out = FipsCiphertext)

KnownAnswerVectorWitness ==
  /\ fn = "encrypt_block" /\ data = FipsPlaintext /\ key = FipsKey
  /\ pc = "returned" /\ out = FipsCiphertext

\* C3: ECB round trip.  When aes256_decrypt has finished on the ciphertext
\* that aes256_encrypt returned for message `orig` (of any length, 0 and
\* multiples of 16 included) under the same key, it has returned exactly
\* `orig`.
EcbRoundTrip ==
  (fn = "decrypt" /\ origfn = "encrypt" /\ Finished(pc)) =>
    (pc = "returned" /\ err = "none" /\ out = orig)

\* Reached for the empty message, for a message of one block and for one of
\* two blocks and a byte; the predicate below is the two-block aligned case.
EcbRoundTripWitness ==
  /\ fn = "decrypt" /\ origfn = "encrypt" /\ pc = "returned"
  /\ Len(orig) = 32 /\ Len(data) = 48 /\ out = orig

\* C4: block-level precondition rejection.  A block call whose block is not
\* 16 bytes or whose key is not 32 bytes is, once past its length checks,
\* ended by a ValueError with no key expanded, no state built, no transform
\* applied and nothing returned.
BlockPreconditionRejection ==
  (fn \in BlockFns /\ (Len(data) # 16 \/ Len(key) # 32) /\ pc # "check") =>
    /\ pc = "raised" /\ err = "ValueError"
    /\ round_keys = <<>> /\ state = <<>> /\ trace = <<>> /\ out = <<>>

BlockPreconditionRejectionWitness ==
  /\ fn = "decrypt_block" /\ Len(data) = 16 /\ Len(key) = 33
  /\ pc = "raised" /\ err = "ValueError"

\* C5: aes256_decrypt with a 32-byte key and a ciphertext whose length is
\* not a multiple of 16 ends in a ValueError raised before the inverse block
\* transform has been applied to any chunk (the accumulator is still empty).
DecryptRejectsBeforeAnyTransform ==
  (fn = "decrypt" /\ Len(key) = 32 /\ Len(data) % 16 # 0 /\ Finished(pc)) =>
    (pc = "raised" /\ err = "ValueError" /\ buf = <<>>)

\* C6: aes256_decrypt with a 32-byte key and a ciphertext whose length is a
\* multiple of 16 (0 included) never raises: it returns a byte sequence.
DecryptNeverRaisesOnWellSized ==
  (fn = "decrypt" /\ Len(key) = 32 /\ Len(data) % 16 = 0 /\ Finished(pc)) =>
    (pc = "returned" /\ err = "none")

\* C7: for non-empty data whose last byte n satisfies 0 <= n <= len(data),
\* pkcs7_unpad returns the prefix of the data of length len(data) - n.
UnpadStripsLastByteCount ==
  (fn = "pkcs7_unpad" /\ Finished(pc) /\ Len(data) > 0
     /\ data[Len(data)] <= Len(data)) =>
    (pc = "returned" /\ out = SubSeq(data, 1, Len(data) - data[Len(data)]))

\* C8: pkcs7_pad returns the data followed by exactly n bytes of value n,
\* n = 16 - (len(data) mod 16): n is in 1..16, the result's length is a
\* positive multiple of 16, and block-aligned data (the empty data included)
\* gets 16 bytes of value 16.
PadAppendsLengthBytes ==
  (fn = "pkcs7_pad" /\ Finished(pc)) =>
    LET n == 16 - (Len(data) % 16)
    IN /\ pc = "returned"
       /\ n \in 1..16
       /\ Len(out) = Len(data) + n /\ Len(out) % 16 = 0 /\ Len(out) > 0
       /\ \A i \in 1..Len(data) : out[i] = data[i]
       /\ \A i \in (Len(data) + 1)..Len(out) : out[i] = n
       /\ (Len(data) % 16 = 0 =>
             SubSeq(out, Len(data) + 1, Len(out)) = [j \in 1..16 |-> 16])

PadAppendsLengthBytesWitness ==
  /\ fn = "pkcs7_pad" /\ pc = "returned" /\ Len(data) = 16 /\ Len(out) = 32
  /\ out[17] = 16 /\ out[32] = 16

\* C9: ECB block independence.  The i-th 16-byte block of what
\* aes256_encrypt returns is aes256_encrypt_block of the i-th 16-byte chunk
\* of pkcs7_pad(message) under the key, whatever the other chunks are; so
\* equal chunks give equal ciphertext blocks.
EcbBlockIndependence ==
  (fn = "encrypt" /\ pc = "returned") =>
    LET p == pkcs7_pad(data)
        chunk(i) == SubSeq(p, 16 * (i - 1) + 1, 16 * i)
        block(i) == SubSeq(out, 16 * (i - 1) + 1, 16 * i)
    IN /\ Len(out) = Len(p)
       /\ \A i \in 1..(Len(p) \div 16) :
            block(i) = aes256_encrypt_block(chunk(i), key).out
       /\ \A i, j \in 1..(Len(p) \div 16) :
            chunk(i) = chunk(j) => block(i) = block(j)

EcbBlockIndependenceWitness ==
  /\ fn = "encrypt" /\ pc = "returned" /\ Len(data) = 32 /\ Len(out) = 48
  /\ SubSeq(data, 1, 16) = SubSeq(data, 17, 32)
  /\ SubSeq(out, 1, 16) = SubSeq(out, 17, 32)
  /\ SubSeq(out, 33, 48) # SubSeq(out, 1, 16)

\* The transforms of rounds `from`..`to` of the forward cipher.
RECURSIVE EncryptRounds(_, _)
EncryptRounds(from, to) ==
  IF from > to THEN <<>>
  ELSE << <<"SubBytes", from>>, <<"ShiftRows", from>>, <<"MixColumns", from>>,
          <<"AddRoundKey", from>> >> \o EncryptRounds(from + 1, to)

ExpectedEncryptTrace ==
  << <<"AddRoundKey", 0>> >> \o EncryptRounds(1, 13)
    \o << <<"SubBytes", 14>>, <<"ShiftRows", 14>>, <<"AddRoundKey", 14>> >>

\* The transforms of rounds `from` down to `to` of the inverse cipher.
RECURSIVE DecryptRounds(_, _)
DecryptRounds(from, to) ==
  IF from < to THEN <<>>
  ELSE << <<"InvShiftRows", from>>, <<"InvSubBytes", from>>,
          <<"AddRoundKey", from>>, <<"InvMixColumns", from>> >>
         \o DecryptRounds(from - 1, to)

ExpectedDecryptTrace ==
  << <<"AddRoundKey", 14>> >> \o DecryptRounds(13, 1)
    \o << <<"InvShiftRows", 0>>, <<"InvSubBytes", 0>>, <<"AddRoundKey", 0>> >>

IsPrefix(s, t) == Len(s) <= Len(t) /\ SubSeq(t, 1, Len(s)) = s

Count(s, op) == Cardinality({n \in 1..Len(s) : s[n][1] = op})

\* C10: round pipeline ordering.  The transforms a block call applies are,
\* at every moment, a prefix of the mandated sequence, and the whole of it
\* when the call returns: AddRoundKey(0), then SubBytes, ShiftRows,
\* MixColumns, AddRoundKey(i) for i = 1..13, then SubBytes, ShiftRows,
\* AddRoundKey(14); inversely AddRoundKey(14), then InvShiftRows,
\* InvSubBytes, AddRoundKey(i), InvMixColumns for i = 13..1, then
\* InvShiftRows, InvSubBytes, AddRoundKey(0).  Each round key 0..14 is used
\* exactly once and (Inv)MixColumns runs exactly 13 times.
RoundPipelineOrdering ==
  (fn \in BlockFns /\ Len(data) = 16 /\ Len(key) = 32) =>
    LET expected == IF fn = "encrypt_block" THEN ExpectedEncryptTrace
                    ELSE ExpectedDecryptTrace
        mix == IF fn = "encrypt_block" THEN "MixColumns" ELSE "InvMixColumns"
    IN /\ IsPrefix(trace, expected)
       /\ Finished(pc) =>
            /\ pc = "returned"
            /\ trace = expected
            /\ Count(trace, mix) = 13
            /\ \A k \in 0..14 :
                 Cardinality({n \in 1..Len(trace) :
                                trace[n] = <<"AddRoundKey", k>>}) = 1

RoundPipelineOrderingWitness ==
  /\ fn = "decrypt_block" /\ pc = "returned" /\ Len(trace) = 56
  /\ trace[4] = <<"AddRoundKey", 13>> /\ trace[5] = <<"InvMixColumns", 13>>

-----------------------------------------------------------------------------
(* The state transforms called on their own: a transform is applied to a   *)
(* state, then its inverse to the result.  `data` holds the state, `key`   *)
(* the round key of add_round_key (<<>> for the other transforms).         *)

NumRamps == 16

ForwardTransforms == {"sub_bytes", "shift_rows", "mix_columns", "add_round_key"}

InverseTransforms ==
  {"inv_sub_bytes", "inv_shift_rows", "inv_mix_columns", "add_round_key"}

\* The transform that undoes t.
inverse_of(t) ==
  CASE t = "sub_bytes" -> "inv_sub_bytes"
    [] t = "shift_rows" -> "inv_shift_rows"
    [] t = "mix_columns" -> "inv_mix_columns"
    [] t = "add_round_key" -> "add_round_key"

\* The call t(state) or add_round_key(state, round_key).
apply_transform(t, s, rk) ==
  CASE t = "sub_bytes" -> sub_bytes(s)
    [] t = "inv_sub_bytes" -> inv_sub_bytes(s)
    [] t = "shift_rows" -> shift_rows(s)
    [] t = "inv_shift_rows" -> inv_shift_rows(s)
    [] t = "mix_columns" -> mix_columns(s)
    [] t = "inv_mix_columns" -> inv_mix_columns(s)
    [] t = "add_round_key" -> add_round_key(s, rk)

\* States n*16, n*16+1, ..: ramps 0..15 hold every byte value.
RampState(n) ==
  [r \in Idx4 |-> [c \in Idx4 |-> (16 * n + 4 * (c - 1) + (r - 1)) % 256]]

\* The state that is 0 but for byte v at row r0, column c0.
UnitState(r0, c0, v) ==
  [r \in Idx4 |-> [c \in Idx4 |-> IF r = r0 /\ c = c0 THEN v ELSE 0]]

TransformStates ==
  {RampState(n) : n \in 0..(NumRamps - 1)}
    \cup {bytes_to_state(b) : b \in Blocks}
    \cup {UnitState(r0, c0, v) :
            r0 \in Idx4, c0 \in Idx4, v \in {1, 2, 4, 8, 16, 32, 64, 128}}

RoundKeyArgs == {RampState(3), bytes_to_state(BlockOf(1, 255))}

CallTransform ==
  /\ pc = "idle"
  /\ \E t \in ForwardTransforms, s \in TransformStates :
       \E rk \in (IF t = "add_round_key" THEN RoundKeyArgs ELSE {<<>>}) :
         Enter(t, s, rk, <<>>, "none")

\* The inverse transform is called on the state the transform returned.
CallInverseOnResult ==
  /\ pc = "returned" /\ fn \in ForwardTransforms /\ origfn = "none"
  /\ Enter(inverse_of(fn), out, key, data, fn)

TransformCall ==
  /\ fn \in ForwardTransforms \cup InverseTransforms /\ pc = "call"
  /\ Return(apply_transform(fn, data, key))

TransformNext ==
  \/ CallTransform
  \/ CallInverseOnResult
  \/ TransformCall
  \/ Finish

TransformSpec == Init /\ [][TransformNext]_vars

\* C12: every state transform is exactly undone by its paired inverse.
\* INV_SBOX[SBOX[x]] = x for all 256 bytes x (so SBOX is a permutation);
\* when the inverse transform has finished on the state its transform
\* returned for state `orig` (add_round_key twice with the same round key),
\* it has returned `orig`; and shift_rows and inv_shift_rows leave row 0 as
\* it was.
TransformsUndoneByInverses ==
  /\ \A x \in 0..255 : INV_SBOX[SBOX[x + 1] + 1] = x
  /\ Cardinality({SBOX[x + 1] : x \in 0..255}) = 256
  /\ (fn \in InverseTransforms /\ origfn \in ForwardTransforms /\ Finished(pc)) =>
       (pc = "returned" /\ fn = inverse_of(origfn) /\ out = orig)
  /\ (fn \in {"shift_rows", "inv_shift_rows"} /\ pc = "returned") =>
       out[1] = data[1]

TransformsUndoneByInversesWitness ==
  /\ fn = "inv_mix_columns" /\ origfn = "mix_columns" /\ pc = "returned"
  /\ orig = UnitState(2, 3, 128) /\ out = orig /\ data # orig

-----------------------------------------------------------------------------
(* gmul called on its own, one loop iteration per step.  `data` holds the  *)
(* arguments <<a, b>>, `buf` the running <<a, b, p>>, `idx` the number of  *)
(* iterations done, `out` the returned byte as <<p & 0xFF>>.               *)

Bytes == 0..255

CallGmul ==
  /\ pc = "idle"
  /\ \E a \in Bytes, b \in Bytes :
       /\ fn' = "gmul" /\ data' = <<a, b>> /\ buf' = <<a, b, 0>> /\ idx' = 0
       /\ pc' = "loop"
       /\ key' = <<>> /\ orig' = <<>> /\ origfn' = "none"
       /\ state' = <<>> /\ round_keys' = <<>> /\ round_num' = 0 /\ trace' = <<>>
       /\ padded' = <<>> /\ out' = <<>> /\ err' = "none"

\* One iteration of for _ in range(8).
GmulIterate ==
  /\ fn = "gmul" /\ pc = "loop" /\ idx < GMUL_ITERATIONS
  /\ buf' = <<gmul_a(buf[1]), buf[2] \div 2, gmul_p(buf[1], buf[2], buf[3])>>
  /\ idx' = idx + 1
  /\ UNCHANGED <<fn, data, key, orig, origfn, pc, state, round_keys, round_num,
                 trace, padded, out, err>>

\* return p & 0xFF
GmulReturn ==
  /\ fn = "gmul" /\ pc = "loop" /\ idx >= GMUL_ITERATIONS
  /\ Return(<<buf[3] % 256>>)

GmulNext ==
  \/ CallGmul
  \/ GmulIterate
  \/ GmulReturn
  \/ Finish

GmulSpec == Init /\ [][GmulNext]_vars

\* The carry-less (polynomial over GF(2)) product of a and b: the XOR of
\* a * x^i over the bits i (from i up to 7) of b that are set.
RECURSIVE CarrylessProduct(_, _, _)
CarrylessProduct(a, b, i) ==
  IF i > 7 THEN 0
  ELSE xor_bits(IF (b \div (2 ^ i)) % 2 = 1 THEN a * (2 ^ i) ELSE 0,
                CarrylessProduct(a, b, i + 1))

\* v reduced modulo x^8 + x^4 + x^3 + x + 1 (0x11b = 283), clearing the
\* bits d, d-1, .., 8.
RECURSIVE ReducedModPoly(_, _)
ReducedModPoly(v, d) ==
  IF d < 8 THEN v
  ELSE ReducedModPoly(
         IF (v \div (2 ^ d)) % 2 = 1 THEN xor_bits(v, 283 * (2 ^ (d - 8))) ELSE v,
         d - 1)

FieldProduct(a, b) == ReducedModPoly(CarrylessProduct(a, b, 0), 14)

\* C13: GF(2^8) multiplication.  For all bytes a, b the loop of gmul(a, b)
\* never runs more than 8 iterations and the call returns after exactly 8;
\* the value returned is a byte, the carry-less product of a and b reduced
\* modulo x^8+x^4+x^3+x+1; gmul(a, 1) = a, gmul(a, 0) = 0, and
\* gmul(a, b) = gmul(b, a).
GmulIsFieldProduct ==
  (fn = "gmul") =>
    /\ idx <= 8
    /\ Finished(pc) =>
         /\ pc = "returned" /\ idx = 8
         /\ out[1] \in 0..255
         /\ out[1] = FieldProduct(data[1], data[2])
         /\ (data[2] = 1 => out[1] = data[1])
         /\ (data[2] = 0 => out[1] = 0)
         /\ out[1] = gmul(data[2], data[1])

\* A call in which the running a outgrew 8 bits and the result is right.
GmulIsFieldProductWitness ==
  /\ fn = "gmul" /\ pc = "returned" /\ idx = 8
  /\ data = <<87, 131>> /\ out = <<193>> /\ buf[1] > 255

\* Word i (from 0) of the schedule, read back from the round keys: column
\* i mod 4 of round key i div 4.
ScheduleWord(rk, i) ==
  <<rk[(i \div 4) + 1][1][(i % 4) + 1], rk[(i \div 4) + 1][2][(i % 4) + 1],
    rk[(i \div 4) + 1][3][(i % 4) + 1], rk[(i \div 4) + 1][4][(i % 4) + 1]>>

RotWord(w) == <<w[2], w[3], w[4], w[1]>>

SubWord(w) == <<SBOX[w[1] + 1], SBOX[w[2] + 1], SBOX[w[3] + 1], SBOX[w[4] + 1]>>

\* The round constants in table order: the m-th one is used at word 8m.
RoundConstants == <<1, 2, 4, 8, 16, 32, 64>>

\* T_i of the key schedule.
ScheduleT(w, i) ==
  IF i % 8 = 0
    THEN <<xor_bits(SubWord(RotWord(w))[1], RoundConstants[i \div 8]),
           SubWord(RotWord(w))[2], SubWord(RotWord(w))[3], SubWord(RotWord(w))[4]>>
  ELSE IF i % 8 = 4 THEN SubWord(w)
  ELSE w

XorWord(a, b) ==
  <<xor_bits(a[1], b[1]), xor_bits(a[2], b[2]), xor_bits(a[3], b[3]),
    xor_bits(a[4], b[4])>>

\* The round keys a block call holds follow the schedule rule for its key.
KeyScheduleRule ==
  (fn \in BlockFns /\ round_keys # <<>>) =>
    /\ Len(round_keys) = 15
    /\ \A n \in 1..15, r \in 1..4 :
         Len(round_keys[n]) = 4 /\ Len(round_keys[n][r]) = 4
         /\ \A c \in 1..4 : round_keys[n][r][c] \in 0..255
    /\ \A i \in 0..7 :
         ScheduleWord(round_keys, i) =
           <<key[4 * i + 1], key[4 * i + 2], key[4 * i + 3], key[4 * i + 4]>>
    /\ \A i \in 8..59 :
         ScheduleWord(round_keys, i) =
           XorWord(ScheduleWord(round_keys, i - 8),
                   ScheduleT(ScheduleWord(round_keys, i - 1), i))

\* A step of a block call leaves its key argument as it was.
KeyNotModified == (fn \in BlockFns /\ fn' = fn /\ pc # "idle" /\ ~Finished(pc)) => key' = key

\* C11: key schedule rule.  For a 32-byte key, key_expansion gives 15 round
\* keys, 4x4 bytes each, whose 60 words (word j of round key k being its
\* column j) are: words 0..7 the key's consecutive 4-byte groups, and for i
\* in 8..59 word[i] = word[i-8] XOR T_i(word[i-1]), T_i being RotWord then
\* SubWord then XOR of byte 0 with the next round constant (1 at word 8, 2
\* at word 16, ...) when i mod 8 = 0, SubWord alone when i mod 8 = 4, the
\* identity otherwise; and the key is not modified.
KeyScheduleRuleHolds == [](KeyScheduleRule) /\ [][KeyNotModified]_vars

KeyScheduleRuleWitness ==
  /\ fn = "encrypt_block" /\ pc = "add_round_key" /\ round_num = 0
  /\ key = FipsKey /\ Len(round_keys) = 15
  /\ ScheduleWord(round_keys, 8) = <<165, 115, 194, 159>>
  /\ ScheduleWord(round_keys, 12) = <<22, 81, 168, 205>>
  /\ ScheduleWord(round_keys, 59) = <<109, 104, 222, 54>>

====
